---- MODULE Spec2Model ----
(***************************************************************************)
(* Model of the two persistence adapters of readium-lcp-server:            *)
(*   index.dbIndex    (src/index/index.go)   over the table "content"      *)
(*   license.sqlStore (src/license/store.go) over the table "license"      *)
(*                                                                         *)
(* The SQL texts of the source are modelled as statement records (verb,    *)
(* table, column list, WHERE column, ORDER BY column, LIMIT form and the   *)
(* placeholder tokens in text order) and executed by a small relational    *)
(* engine (Prepare, ExecInsert, ExecUpdate, Query), so that what a handler *)
(* does to a table is decided by the statement text its dialect selected.  *)
(***************************************************************************)
EXTENDS Integers, Sequences, FiniteSets, TLC

VARIABLES
    config,      \* config.Config.LcpServer.Database
    dbUp,        \* whether the injected *sql.DB can reach the database
    tables,      \* table name -> [cols: set of columns ({} = no table), rows: id -> row]
    idx,         \* the index.Index handle held by the caller
    store,       \* the license.Store handle held by the caller
    iter,        \* the iterator closure last returned by List / ListAll
    openCursors, \* number of *sql.Rows opened and not yet closed
    added,       \* history: id -> the record given to Add, while no update matched it since
    unstamped,   \* history: license ids added and not matched by Update/UpdateRights since
    last         \* the last call: [op, arg, now, err, out]

vars == <<config, dbUp, tables, idx, store, iter, openCursors,
          added, unstamped, last>>

----------------------------------------------------------------------------
(* Values *)

\* Go's nil error
Nil == "nil"

\* var NotFound = errors.New("Content not found")
IndexNotFound == "Content not found"

\* var NotFound = errors.New("License not found")
LicenseNotFound == "License not found"

\* sql.ErrNoRows, returned by Row.Scan when the query selected no row
ErrNoRows == "sql: no rows in result set"

\* any other error of the driver (connection failure, constraint
\* violation, malformed SQL, missing table), propagated unchanged
DbError == "database error"

\* a Scan conversion error
ScanError == "scan error"

\* SQL NULL, a nil Go pointer
Null == <<>>

\* a non-NULL value of a nullable column, a non-nil Go pointer
Some(v) == <<v>>

\* the values config.Config.LcpServer.Database is given
Configs == {"postgres://lcp", "sqlite3://lcp.sqlite", "mysql://lcp"}

\* strings.HasPrefix
HasPrefix(s, prefix) ==
    /\ Len(s) >= Len(prefix)
    /\ SubSeq(s, 1, Len(prefix)) = prefix

\* the length of one second in clock ticks (time.Second, scaled)
Second == 2

\* the clock readings time.Now() can return
MaxClock == 1

Clock == 0..MaxClock

\* time.Time.Truncate(time.Second)
TruncateIsIdentity(t) == t

Truncate(t) == t - (t % Second)

----------------------------------------------------------------------------
(* The SQL statements, as the source writes them per dialect *)

\* the placeholder tokens of a statement with n parameters
Dollar == <<"$1", "$2", "$3", "$4", "$5", "$6", "$7", "$8", "$9", "$10">>

Numbered(n) == SubSeq(Dollar, 1, n)

QuestionMarks(n) == [i \in 1..n |-> "?"]

\* the argument bound to the i-th placeholder of a statement: a "?" takes
\* the i-th argument, "$n" takes the n-th
ArgIndex(ph, i) ==
    IF ph[i] = "?" THEN i ELSE CHOOSE n \in 1..Len(Dollar) : Dollar[n] = ph[i]

ContentColumns ==
    {"id", "encryption_key", "location", "length", "sha256", "type"}

\* a content table created before the "type" column was introduced
LegacyContentColumns == ContentColumns \ {"type"}

LicenseColumns ==
    {"id", "user_id", "provider", "issued", "updated", "rights_print",
     "rights_copy", "rights_start", "rights_end", "content_fk", "lsd_status"}

\* the DEFAULT clauses of the table definitions
ColumnDefault(c) ==
    CASE c = "type" -> "application/epub+zip"
      [] c = "lsd_status" -> 0
      [] OTHER -> Null

Stmt(verb, table, cols, where, order, limit, ph) ==
    [verb |-> verb, table |-> table, cols |-> cols, where |-> where,
     order |-> order, limit |-> limit, ph |-> ph]

ContentSelectList ==
    <<"id", "encryption_key", "location", "length", "sha256", "type">>

LicenseSelectList ==
    <<"id", "user_id", "provider", "issued", "updated", "rights_print",
      "rights_copy", "rights_start", "rights_end", "content_fk">>

\* index.Open: createTableQuery, getQuery, addQuery, updateQuery, listQuery
IndexQueries(cfg) ==
    LET P(n) == IF HasPrefix(cfg, "postgres") THEN Numbered(n) ELSE QuestionMarks(n)
    IN  [create |-> [table |-> "content", cols |-> ContentColumns, refs |-> {}],
         get    |-> Stmt("SELECT", "content", ContentSelectList, "id", "", "one", P(1)),
         add    |-> Stmt("INSERT", "content", ContentSelectList, "", "", "none", P(6)),
         update |-> Stmt("UPDATE", "content",
                         <<"encryption_key", "location", "length", "sha256", "type">>,
                         "id", "", "none", P(6)),
         list   |-> Stmt("SELECT", "content", ContentSelectList, "", "", "none", P(0))]

UpdateRightsColumnsPostgres ==
    <<"rights_print", "rights_copy", "rights_start", "rights_end", "updated">>

\* store.go:206 writes the last column of the SET clause "u pdated"
UpdateRightsColumnsDefault ==
    <<"rights_print", "rights_copy", "rights_start", "rights_end", "u pdated">>

UpdateColumns ==
    <<"user_id", "provider", "updated", "rights_print", "rights_copy",
      "rights_start", "rights_end", "content_fk">>

LsdStatusColumnsIssued == <<"issued">>

LsdStatusColumns == <<"lsd_status">>

ListAllOrder == "issued"

\* license.NewSqlStore: tabledefquery, listallquery, listquery,
\* updaterightsquery, addquery, updatequery, updatelsdstatusquery, getquery
StoreQueries(cfg) ==
    LET pg == HasPrefix(cfg, "postgres")
        P(n) == IF pg THEN Numbered(n) ELSE QuestionMarks(n)
    IN  [create  |-> [table |-> "license", cols |-> LicenseColumns, refs |-> {"content"}],
         listall |-> Stmt("SELECT", "license", LicenseSelectList, "", ListAllOrder,
                          "param", P(2)),
         list    |-> Stmt("SELECT", "license", LicenseSelectList, "content_fk", "",
                          "param", P(3)),
         updaterights |-> Stmt("UPDATE", "license",
                               IF pg THEN UpdateRightsColumnsPostgres
                                     ELSE UpdateRightsColumnsDefault,
                               "id", "", "none", P(6)),
         add     |-> Stmt("INSERT", "license", LicenseSelectList, "", "", "none", P(10)),
         update  |-> Stmt("UPDATE", "license", UpdateColumns, "id", "", "none", P(9)),
         updatelsdstatus |-> Stmt("UPDATE", "license", LsdStatusColumns, "id", "",
                                  "none", P(2)),
         get     |-> Stmt("SELECT", "license", LicenseSelectList, "id", "", "none", P(1))]

----------------------------------------------------------------------------
(* The database behind *sql.DB *)

Min(a, b) == IF a < b THEN a ELSE b

\* the elements of a sequence
Range(s) == {s[i] : i \in DOMAIN s}

\* every column a statement names
StmtColumns(st) ==
    Range(st.cols) \cup (IF st.where = "" THEN {} ELSE {st.where})
                   \cup (IF st.order = "" THEN {} ELSE {st.order})

\* db.Prepare: the server parses the statement against the schema. It fails
\* when the database is unreachable, the table is missing, or the statement
\* names something that is no column of the table.
PrepareOk(st, up, tbls) ==
    /\ up
    /\ tbls[st.table].cols # {}
    /\ StmtColumns(st) \subseteq tbls[st.table].cols

\* db.Exec of a CREATE TABLE IF NOT EXISTS: [tables, err]. A table that
\* exists is left as it is; a FOREIGN KEY that references a missing table
\* is refused by postgres and accepted by sqlite.
ExecCreate(def, cfg, up, tbls) ==
    IF ~up THEN [tables |-> tbls, err |-> DbError]
    ELSE IF tbls[def.table].cols # {} THEN [tables |-> tbls, err |-> Nil]
    ELSE IF /\ ~HasPrefix(cfg, "sqlite")
            /\ \E r \in def.refs : tbls[r].cols = {}
         THEN [tables |-> tbls, err |-> DbError]
    ELSE [tables |-> [tbls EXCEPT ![def.table] = [cols |-> def.cols, rows |-> <<>>]],
          err |-> Nil]

\* db.Exec of ALTER TABLE t ADD COLUMN c ... NOT NULL DEFAULT d: [tables, err]
ExecAddColumn(table, c, up, tbls) ==
    IF ~up \/ tbls[table].cols = {} \/ c \in tbls[table].cols
    THEN [tables |-> tbls, err |-> DbError]
    ELSE [tables |->
            [tbls EXCEPT ![table] =
                [cols |-> @.cols \cup {c},
                 rows |-> [k \in DOMAIN @.rows |->
                              [col \in @.cols \cup {c} |->
                                  IF col = c THEN ColumnDefault(c) ELSE @.rows[k][col]]]]],
          err |-> Nil]

\* the value a statement's i-th listed column is given
BoundArg(st, args, i) == args[ArgIndex(st.ph, i)]

\* the position of column c in the statement's column list, 0 if absent
ColumnPos(st, c) ==
    IF \E i \in DOMAIN st.cols : st.cols[i] = c
    THEN CHOOSE i \in DOMAIN st.cols : st.cols[i] = c
    ELSE 0

\* Stmt.Exec of an INSERT: [tables, err, affected]. The primary key is
\* unique and license.content_fk references content(id).
ExecInsert(st, args, up, tbls) ==
    LET t == tbls[st.table]
        row == [c \in t.cols |->
                   IF ColumnPos(st, c) # 0 THEN BoundArg(st, args, ColumnPos(st, c))
                   ELSE ColumnDefault(c)]
        refused ==
            \/ row["id"] \in DOMAIN t.rows
            \/ /\ st.table = "license"
               /\ row["content_fk"] \notin DOMAIN tbls["content"].rows
    IN  IF ~up \/ refused
        THEN [tables |-> tbls, err |-> DbError, affected |-> 0]
        ELSE [tables |-> [tbls EXCEPT ![st.table].rows = (row["id"] :> row) @@ @],
              err |-> Nil, affected |-> 1]

\* Stmt.Exec of an UPDATE ... WHERE col = arg: [tables, err, affected]
ExecUpdate(st, args, up, tbls) ==
    LET t == tbls[st.table]
        key == args[ArgIndex(st.ph, Len(st.cols) + 1)]
        matched == {k \in DOMAIN t.rows : t.rows[k][st.where] = key}
        new(k) == [c \in t.cols |->
                      IF ColumnPos(st, c) # 0 THEN BoundArg(st, args, ColumnPos(st, c))
                      ELSE t.rows[k][c]]
        refused ==
            /\ st.table = "license"
            /\ \E k \in matched : new(k)["content_fk"] \notin DOMAIN tbls["content"].rows
    IN  IF ~up \/ refused
        THEN [tables |-> tbls, err |-> DbError, affected |-> 0]
        ELSE [tables |-> [tbls EXCEPT ![st.table].rows =
                            [k \in DOMAIN @ |-> IF k \in matched THEN new(k) ELSE @[k]]],
              err |-> Nil, affected |-> Cardinality(matched)]

\* the orders in which a set of rows can be returned: sorted by the ORDER BY
\* column, descending, rows with equal keys in any order; any order at all
\* without ORDER BY
Orderings(rows, order) ==
    LET n == Cardinality(rows)
    IN  {s \in [1..n -> rows] :
            /\ \A i, j \in 1..n : i # j => s[i] # s[j]
            /\ order # "" => \A i, j \in 1..n : i < j => s[i][order] >= s[j][order]}

\* Stmt.Query of a SELECT: the result sets the database may return, each a
\* sequence of rows. The placeholders are, in text order, the WHERE value
\* (if any), then LIMIT and OFFSET (if parameters).
QueryResults(st, args, tbls) ==
    LET t == tbls[st.table]
        w == IF st.where = "" THEN 0 ELSE 1
        selected == {t.rows[k] : k \in
                        {k \in DOMAIN t.rows :
                            st.where # "" => t.rows[k][st.where] = args[ArgIndex(st.ph, 1)]}}
        limit == CASE st.limit = "param" -> args[ArgIndex(st.ph, w + 1)]
                   [] st.limit = "one" -> 1
                   [] OTHER -> Cardinality(selected)
        offset == IF st.limit = "param" THEN args[ArgIndex(st.ph, w + 2)] ELSE 0
    IN  {SubSeq(s, offset + 1, Min(offset + limit, Len(s))) :
            s \in Orderings(selected, st.order)}

----------------------------------------------------------------------------
(* Records and inputs *)

\* the last call and what it returned
Call(op, arg, now, err, out) ==
    [op |-> op, arg |-> arg, now |-> now, err |-> err, out |-> out]

ContentIds == {"c1", "c2"}

\* two index.Content values that differ in every field but the id
ContentA(id) ==
    [Id |-> id, EncryptionKey |-> "k1", Location |-> "file:a", Length |-> 10,
     Sha256 |-> "aa", Type |-> "application/epub+zip"]

ContentB(id) ==
    [Id |-> id, EncryptionKey |-> "k2", Location |-> "file:b", Length |-> 20,
     Sha256 |-> "bb", Type |-> ""]

\* the index.Content values given to Add and Update
Contents == {ContentA("c1"), ContentB("c1"), ContentB("c2")}

\* Content{}
ContentZero ==
    [Id |-> "", EncryptionKey |-> "", Location |-> "", Length |-> 0,
     Sha256 |-> "", Type |-> ""]

LicenseIds == {"l1", "l2"}

\* the rights of a license: l.Rights.Print, l.Rights.Copy, l.Rights.Start and
\* l.Rights.End, each a nullable value
UserRights(print, copy, start, end) ==
    ("Print" :> print) @@ ("Copy" :> copy) @@ ("Start" :> start) @@ ("End" :> end)

\* two license.License values that differ in every field but the id
LicenseA(id) ==
    [Id |-> id, User |-> [Id |-> "u1"], Provider |-> "p1", Issued |-> 1,
     Updated |-> Null,
     Rights |-> UserRights(Some(10), Null, Some(1), Null),
     ContentId |-> "c1"]

LicenseB(id) ==
    [Id |-> id, User |-> [Id |-> "u2"], Provider |-> "p2", Issued |-> 2,
     Updated |-> Some(7),
     Rights |-> UserRights(Null, Some(20), Null, Some(3)),
     ContentId |-> "c2"]

\* the license.License values given to Add
AddedLicenses == {LicenseA("l1"), LicenseB("l1"), LicenseA("l2")}

\* the license.License values given to Update and UpdateRights
UpdatedLicenses == {LicenseA("l1"), LicenseB("l1")}

\* the license ids given to UpdateLsdStatus
StatusIds == {"l1"}

\* the values given to the components when listing: two licenses issued at
\* the same time and a later one
ListedContents == {ContentA("c1"), ContentB("c2")}

ListedLicenses == {LicenseA("l1"), LicenseA("l2"), LicenseB("l3")}

\* var l License; l.Rights = new(UserRights)
LicenseZero ==
    [Id |-> "", User |-> [Id |-> ""], Provider |-> "", Issued |-> 0, Updated |-> Null,
     Rights |-> UserRights(Null, Null, Null, Null),
     ContentId |-> ""]

\* the lsd status values given to UpdateLsdStatus
StatusValues == {0, 1}

\* rows.Scan(&c.Id, &c.EncryptionKey, &c.Location, &c.Length, &c.Sha256, &c.Type):
\* the i-th selected column goes to the i-th destination
ScanContent(st, row) ==
    [Id |-> row[st.cols[1]], EncryptionKey |-> row[st.cols[2]],
     Location |-> row[st.cols[3]], Length |-> row[st.cols[4]],
     Sha256 |-> row[st.cols[5]], Type |-> row[st.cols[6]]]

\* Scan(&l.Id, &l.User.Id, &l.Provider, &l.Issued, &l.Updated, &l.Rights.Print,
\*      &l.Rights.Copy, &l.Rights.Start, &l.Rights.End, &l.ContentId)
ScanLicense(st, row) ==
    [Id |-> row[st.cols[1]], User |-> [Id |-> row[st.cols[2]]],
     Provider |-> row[st.cols[3]], Issued |-> row[st.cols[4]],
     Updated |-> row[st.cols[5]],
     Rights |-> UserRights(row[st.cols[6]], row[st.cols[7]],
                           row[st.cols[8]], row[st.cols[9]]),
     ContentId |-> row[st.cols[10]]]

\* a nil index.Index / license.Store
NoHandle == [ok |-> FALSE]

\* the closure returned by a List call: the statement queried (st) and its
\* arguments, the rows the cursor has still to deliver, whether the cursor is
\* open, the error of the Query, where the caller is with it ("active",
\* "drained" once it returned NotFound, "abandoned" once the caller dropped
\* it), and as history the ids it yielded and the rows of the table when it
\* was queried
Iter(kind, st, arg, rows, open, err, state, yielded, from) ==
    [kind |-> kind, st |-> st, arg |-> arg, rows |-> rows, open |-> open,
     err |-> err, state |-> state, yielded |-> yielded, from |-> from]

\* no iterator has been returned yet
NoIter == Iter("none", <<>>, <<>>, <<>>, FALSE, Nil, "none", <<>>, <<>>)

----------------------------------------------------------------------------
(* index.dbIndex *)

\* Open(db): [tables, i, err, issued], issued being the statements given to db.Exec
IndexOpenResult(cfg, up, tbls) ==
    LET q == IndexQueries(cfg)
        created == ExecCreate(q.create, cfg, up, tbls)
        sqlite == HasPrefix(cfg, "sqlite")
        migrated == IF sqlite
                    THEN ExecAddColumn("content", "type", up, created.tables).tables
                    ELSE created.tables
        issued == IF sqlite /\ created.err = Nil
                  THEN <<"CREATE content", "ALTER content">>
                  ELSE <<"CREATE content">>
    IN  IF created.err # Nil
        THEN [tables |-> created.tables, i |-> NoHandle, err |-> created.err,
              issued |-> issued]
        ELSE IF \E st \in {q.get, q.add, q.update, q.list} : ~PrepareOk(st, up, migrated)
        THEN [tables |-> migrated, i |-> NoHandle, err |-> DbError, issued |-> issued]
        ELSE [tables |-> migrated,
              i |-> [ok |-> TRUE, get |-> q.get, add |-> q.add,
                     update |-> q.update, list |-> q.list],
              err |-> Nil, issued |-> issued]

\* func (i dbIndex) Get(id string) (Content, error), rs the rows of the query
IndexGetResult(i, id, up, rs) ==
    IF ~up THEN [c |-> ContentZero, err |-> DbError]
    ELSE IF Len(rs) > 0 THEN [c |-> ScanContent(i.get, rs[1]), err |-> Nil]
    ELSE [c |-> ContentZero, err |-> IndexNotFound]

\* the arguments of i.add.Exec
IndexAddArgsSwapped(c) ==
    <<c.Id, c.EncryptionKey, c.Sha256, c.Length, c.Location, c.Type>>

IndexAddArgs(c) ==
    <<c.Id, c.EncryptionKey, c.Location, c.Length, c.Sha256, c.Type>>

\* the arguments of i.update.Exec
IndexUpdateArgs(c) ==
    <<c.EncryptionKey, c.Location, c.Length, c.Sha256, c.Type, c.Id>>

IndexOpen ==
    LET r == IndexOpenResult(config, dbUp, tables)
    IN  /\ tables' = r.tables
        /\ idx' = r.i
        /\ last' = Call("index.Open", config, 0, r.err, r.issued)
        /\ UNCHANGED <<config, dbUp, store, iter, openCursors, added, unstamped>>

IndexGet(id) ==
    /\ idx.ok
    /\ \E rs \in QueryResults(idx.get, <<id>>, tables) :
          LET r == IndexGetResult(idx, id, dbUp, rs)
          IN  last' = Call("index.Get", id, 0, r.err, r.c)
    /\ UNCHANGED <<config, dbUp, tables, idx, store, iter, openCursors, added,
                   unstamped>>

IndexAdd(c) ==
    /\ idx.ok
    /\ LET r == ExecInsert(idx.add, IndexAddArgs(c), dbUp, tables)
       IN  /\ tables' = r.tables
           /\ added' = IF r.err = Nil THEN (c.Id :> c) @@ added ELSE added
           /\ last' = Call("index.Add", c, 0, r.err, <<>>)
    /\ UNCHANGED <<config, dbUp, idx, store, iter, openCursors, unstamped>>

\* the history entry of id is dropped when an update matched its row
Forget(hist, id, affected) ==
    IF affected > 0 THEN [k \in DOMAIN hist \ {id} |-> hist[k]] ELSE hist

IndexUpdate(c) ==
    /\ idx.ok
    /\ LET r == ExecUpdate(idx.update, IndexUpdateArgs(c), dbUp, tables)
       IN  /\ tables' = r.tables
           /\ added' = Forget(added, c.Id, r.affected)
           /\ last' = Call("index.Update", c, 0, r.err, <<>>)
    /\ UNCHANGED <<config, dbUp, idx, store, iter, openCursors, unstamped>>

----------------------------------------------------------------------------
(* license.sqlStore *)

\* whether NewSqlStore executes the table definition: "if sqlite/postgres,
\* create the license table if it does not exist"
StoreCreatesTableSqliteOnly(cfg) == HasPrefix(cfg, "sqlite")

StoreCreatesTable(cfg) == HasPrefix(cfg, "sqlite") \/ HasPrefix(cfg, "postgres")

\* NewSqlStore(db): [tables, s, err, issued]
NewSqlStoreResult(cfg, up, tbls) ==
    LET q == StoreQueries(cfg)
        creates == StoreCreatesTable(cfg)
        created == IF creates THEN ExecCreate(q.create, cfg, up, tbls)
                   ELSE [tables |-> tbls, err |-> Nil]
        issued == IF creates THEN <<"CREATE license">> ELSE <<>>
        stmts == {q.listall, q.list, q.updaterights, q.add, q.update,
                  q.updatelsdstatus, q.get}
    IN  IF created.err # Nil
        THEN [tables |-> created.tables, s |-> NoHandle, err |-> created.err,
              issued |-> issued]
        ELSE IF \E st \in stmts : ~PrepareOk(st, up, created.tables)
        THEN [tables |-> created.tables, s |-> NoHandle, err |-> DbError,
              issued |-> issued]
        ELSE [tables |-> created.tables,
              s |-> [ok |-> TRUE, listall |-> q.listall, list |-> q.list,
                     updaterights |-> q.updaterights, add |-> q.add,
                     update |-> q.update, updatelsdstatus |-> q.updatelsdstatus,
                     get |-> q.get],
              err |-> Nil, issued |-> issued]

\* the arguments of s.updaterights.Exec
UpdateRightsArgs(l, now) ==
    <<l.Rights.Print, l.Rights.Copy, l.Rights.Start, l.Rights.End,
      Some(Truncate(now)), l.Id>>

\* the arguments of s.add.Exec
AddArgs(l) ==
    <<l.Id, l.User.Id, l.Provider, l.Issued, Null,
      l.Rights.Print, l.Rights.Copy, l.Rights.Start, l.Rights.End, l.ContentId>>

\* the arguments of s.update.Exec
UpdateArgs(l, now) ==
    <<l.User.Id, l.Provider, Some(Truncate(now)),
      l.Rights.Print, l.Rights.Copy, l.Rights.Start, l.Rights.End,
      l.ContentId, l.Id>>

\* the arguments of s.updatelsdstatus.Exec
UpdateLsdStatusArgs(id, status) == <<status, id>>

\* the error Update and UpdateLsdStatus return for the result r of the Exec
UpdateErrChecked(r) ==
    IF r.err = Nil /\ r.affected = 0 THEN LicenseNotFound ELSE r.err

UpdateErr(r) == r.err

\* the error UpdateRights returns for the result r of the Exec
UpdateRightsErrUnchecked(r) == r.err

UpdateRightsErr(r) ==
    IF r.err = Nil /\ r.affected = 0 THEN LicenseNotFound ELSE r.err

\* the error of row.Scan on the row of s.get.QueryRow(id)
RowScanErr(up, rs) ==
    IF ~up THEN DbError ELSE IF Len(rs) = 0 THEN ErrNoRows ELSE Nil

\* func (s *sqlStore) Get(id string) (License, error)
StoreGetResultUnmapped(s, id, up, rs) ==
    [l |-> IF RowScanErr(up, rs) = Nil THEN ScanLicense(s.get, rs[1]) ELSE LicenseZero,
     err |-> RowScanErr(up, rs)]

StoreGetResult(s, id, up, rs) ==
    LET err == RowScanErr(up, rs)
    IN  IF err # Nil
        THEN IF err = ErrNoRows THEN [l |-> LicenseZero, err |-> LicenseNotFound]
             ELSE [l |-> LicenseZero, err |-> err]
        ELSE [l |-> ScanLicense(s.get, rs[1]), err |-> Nil]

NewSqlStore ==
    LET r == NewSqlStoreResult(config, dbUp, tables)
    IN  /\ tables' = r.tables
        /\ store' = r.s
        /\ last' = Call("license.NewSqlStore", config, 0, r.err, r.issued)
        /\ UNCHANGED <<config, dbUp, idx, iter, openCursors, added, unstamped>>

StoreUpdateRights(l, now) ==
    /\ store.ok
    /\ LET r == ExecUpdate(store.updaterights, UpdateRightsArgs(l, now), dbUp, tables)
       IN  /\ tables' = r.tables
           /\ added' = Forget(added, l.Id, r.affected)
           /\ unstamped' = IF r.affected > 0 THEN unstamped \ {l.Id} ELSE unstamped
           /\ last' = Call("license.UpdateRights", l, now, UpdateRightsErr(r), <<>>)
    /\ UNCHANGED <<config, dbUp, idx, store, iter, openCursors>>

StoreAdd(l) ==
    /\ store.ok
    /\ LET r == ExecInsert(store.add, AddArgs(l), dbUp, tables)
       IN  /\ tables' = r.tables
           /\ added' = IF r.err = Nil THEN (l.Id :> l) @@ added ELSE added
           /\ unstamped' = IF r.err = Nil THEN unstamped \cup {l.Id} ELSE unstamped
           /\ last' = Call("license.Add", l, 0, r.err, <<>>)
    /\ UNCHANGED <<config, dbUp, idx, store, iter, openCursors>>

StoreUpdate(l, now) ==
    /\ store.ok
    /\ LET r == ExecUpdate(store.update, UpdateArgs(l, now), dbUp, tables)
       IN  /\ tables' = r.tables
           /\ added' = Forget(added, l.Id, r.affected)
           /\ unstamped' = IF r.affected > 0 THEN unstamped \ {l.Id} ELSE unstamped
           /\ last' = Call("license.Update", l, now, UpdateErr(r), <<>>)
    /\ UNCHANGED <<config, dbUp, idx, store, iter, openCursors>>

StoreUpdateLsdStatus(id, status) ==
    /\ store.ok
    /\ LET r == ExecUpdate(store.updatelsdstatus, UpdateLsdStatusArgs(id, status),
                           dbUp, tables)
       IN  /\ tables' = r.tables
           /\ added' = Forget(added, id, r.affected)
           /\ last' = Call("license.UpdateLsdStatus", <<id, status>>, 0, UpdateErr(r), <<>>)
    /\ UNCHANGED <<config, dbUp, idx, store, iter, openCursors, unstamped>>

StoreGet(id) ==
    /\ store.ok
    /\ \E rs \in QueryResults(store.get, <<id>>, tables) :
          LET r == StoreGetResult(store, id, dbUp, rs)
          IN  last' = Call("license.Get", id, 0, r.err, r.l)
    /\ UNCHANGED <<config, dbUp, tables, idx, store, iter, openCursors, added,
                   unstamped>>

----------------------------------------------------------------------------
(* The iterators of index.List, license.List and license.ListAll *)

\* the open cursors the connection pool is let to hold
MaxCursors == 2

\* the page sizes and page numbers given to List and ListAll
MaxPage == 2

MaxPageNum == 1

\* listLicenses, err := stmt.Query(args...) and the closure returned
Listing(kind, st, args, arg) ==
    /\ iter.state # "active"
    /\ openCursors < MaxCursors
    /\ IF ~dbUp
       THEN /\ iter' = Iter(kind, st, arg, <<>>, FALSE, DbError, "active", <<>>,
                            tables[st.table].rows)
            /\ openCursors' = openCursors
       ELSE /\ \E rs \in QueryResults(st, args, tables) :
                  iter' = Iter(kind, st, arg, rs, TRUE, Nil, "active", <<>>,
                               tables[st.table].rows)
            /\ openCursors' = openCursors + 1
    /\ last' = Call(kind, arg, 0, Nil, <<>>)
    /\ UNCHANGED <<config, dbUp, tables, idx, store, added, unstamped>>

\* func (i dbIndex) List() func() (Content, error)
IndexList ==
    /\ idx.ok
    /\ Listing("index.List", idx.list, <<>>, <<>>)

\* the arguments of s.list.Query
ListArgs(contentID, page, pageNum) == <<contentID, page, pageNum * page>>

\* the arguments of s.listall.Query
ListAllArgsSwapped(page, pageNum) == <<pageNum * page, page>>

ListAllArgs(page, pageNum) == <<page, pageNum * page>>

\* func (s *sqlStore) List(contentID string, page int, pageNum int)
StoreList(contentID, page, pageNum) ==
    /\ store.ok
    /\ Listing("license.List", store.list, ListArgs(contentID, page, pageNum),
               <<contentID, page, pageNum>>)

\* func (s *sqlStore) ListAll(page int, pageNum int)
StoreListAll(page, pageNum) ==
    /\ store.ok
    /\ Listing("license.ListAll", store.listall, ListAllArgs(page, pageNum),
               <<page, pageNum>>)

\* the NotFound of the component the iterator belongs to
NotFoundOf(kind) == IF kind = "index.List" THEN IndexNotFound ELSE LicenseNotFound

\* one call of the closure; scanFails tells whether rows.Scan returns an error.
\* rows.Next() is false when no row is left or the connection is lost.
IterNext(scanFails) ==
    /\ iter.state = "active"
    /\ IF iter.err # Nil
       THEN /\ last' = Call("next", iter.kind, 0, iter.err, <<>>)
            /\ UNCHANGED <<iter, openCursors>>
       ELSE IF Len(iter.rows) > 0 /\ dbUp
       THEN LET row == Head(iter.rows)
                rec == IF iter.kind = "index.List" THEN ScanContent(iter.st, row)
                       ELSE ScanLicense(iter.st, row)
            IN  /\ iter' = [iter EXCEPT !.rows = Tail(@),
                                        !.yielded = IF scanFails THEN @
                                                    ELSE Append(@, rec.Id)]
                /\ last' = IF scanFails
                           THEN Call("next", iter.kind, 0, ScanError, <<>>)
                           ELSE Call("next", iter.kind, 0, Nil, rec)
                /\ UNCHANGED openCursors
       ELSE /\ ~scanFails
            /\ iter' = [iter EXCEPT !.open = FALSE, !.state = "drained"]
            /\ openCursors' = openCursors - 1
            /\ last' = Call("next", iter.kind, 0, NotFoundOf(iter.kind), <<>>)
    /\ UNCHANGED <<config, dbUp, tables, idx, store, added, unstamped>>

\* the caller stops calling the closure and drops it; nothing it holds can
\* close the cursor
Abandon ==
    /\ iter.state = "active"
    /\ iter' = [iter EXCEPT !.state = "abandoned"]
    /\ last' = Call("abandon", iter.kind, 0, Nil, <<>>)
    /\ UNCHANGED <<config, dbUp, tables, idx, store, openCursors, added, unstamped>>

----------------------------------------------------------------------------
(* The environment *)

\* the connection to the database is lost
Disconnect ==
    /\ dbUp
    /\ dbUp' = FALSE
    /\ last' = Call("disconnect", <<>>, 0, Nil, <<>>)
    /\ UNCHANGED <<config, tables, idx, store, iter, openCursors, added, unstamped>>

\* the connection to the database is back
Reconnect ==
    /\ ~dbUp
    /\ dbUp' = TRUE
    /\ last' = Call("reconnect", <<>>, 0, Nil, <<>>)
    /\ UNCHANGED <<config, tables, idx, store, iter, openCursors, added, unstamped>>

NoTable == [cols |-> {}, rows |-> <<>>]

\* the schemas the database can have when the server starts: empty, a content
\* table of an earlier version, or the tables of the current version
InitialSchemas ==
    {[content |-> NoTable, license |-> NoTable],
     [content |-> [cols |-> LegacyContentColumns, rows |-> <<>>], license |-> NoTable],
     [content |-> [cols |-> ContentColumns, rows |-> <<>>], license |-> NoTable],
     [content |-> [cols |-> ContentColumns, rows |-> <<>>],
      license |-> [cols |-> LicenseColumns, rows |-> <<>>]]}

Init ==
    /\ config \in Configs
    /\ dbUp = TRUE
    /\ tables \in InitialSchemas
    /\ idx = NoHandle
    /\ store = NoHandle
    /\ iter = NoIter
    /\ openCursors = 0
    /\ added = <<>>
    /\ unstamped = {}
    /\ last = Call("start", <<>>, 0, Nil, <<>>)

\* opening the components and the single-record operations
Next ==
    \/ IndexOpen
    \/ NewSqlStore
    \/ \E id \in ContentIds : IndexGet(id)
    \/ \E c \in Contents : IndexAdd(c)
    \/ \E c \in Contents : IndexUpdate(c)
    \/ \E id \in LicenseIds : StoreGet(id)
    \/ \E l \in AddedLicenses : StoreAdd(l)
    \/ \E l \in UpdatedLicenses, now \in Clock : StoreUpdate(l, now)
    \/ \E l \in UpdatedLicenses, now \in Clock : StoreUpdateRights(l, now)
    \/ \E id \in StatusIds, status \in StatusValues : StoreUpdateLsdStatus(id, status)

Spec == Init /\ [][Next]_vars

\* the same, with a connection that can be lost and restored
NextFaulty ==
    \/ Next
    \/ Disconnect
    \/ Reconnect

SpecFaulty == Init /\ [][NextFaulty]_vars

\* opening the components, adding records and listing them
NextList ==
    \/ IndexOpen
    \/ NewSqlStore
    \/ \E c \in ListedContents : IndexAdd(c)
    \/ \E l \in ListedLicenses : StoreAdd(l)
    \/ IndexList
    \/ \E c \in ContentIds, page \in 1..MaxPage, pageNum \in 0..MaxPageNum :
          StoreList(c, page, pageNum)
    \/ \E page \in 1..MaxPage, pageNum \in 0..MaxPageNum : StoreListAll(page, pageNum)
    \/ IterNext(FALSE)
    \/ Abandon

SpecList == Init /\ [][NextList]_vars

\* the same, with scan errors and a connection that can be lost
NextListFaulty ==
    \/ NextList
    \/ IterNext(TRUE)
    \/ Disconnect
    \/ Reconnect

SpecListFaulty == Init /\ [][NextListFaulty]_vars

----------------------------------------------------------------------------
(* Properties *)

ContentRows == tables["content"].rows

LicenseRows == tables["license"].rows

\* C1: a Get of an identifier whose Add succeeded and that no update has
\* matched since returns no error and the record given to Add: every field
\* of a content, every field but Updated of a license.
C1_AddGetRoundTrip ==
    /\ (last.op = "index.Get" /\ last.arg \in DOMAIN added)
          => (last.err = Nil /\ last.out = added[last.arg])
    /\ (last.op = "license.Get" /\ last.arg \in DOMAIN added)
          => /\ last.err = Nil
             /\ [last.out EXCEPT !.Updated = added[last.arg].Updated] = added[last.arg]

\* a license added with a last-updated value has been read back
C1_Witness ==
    /\ last.op = "license.Get"
    /\ last.arg \in DOMAIN added
    /\ added[last.arg].Updated # Null
    /\ last.out.Rights.Copy = Some(20)

\* C2 as claimed: a Get of an identifier that has no row returns the
\* component's NotFound, whatever the state of the connection.
C2_GetMissingAlwaysNotFound ==
    /\ (last.op = "index.Get" /\ last.arg \notin DOMAIN ContentRows)
          => last.err = IndexNotFound
    /\ (last.op = "license.Get" /\ last.arg \notin DOMAIN LicenseRows)
          => last.err = LicenseNotFound

\* C2 amended: a Get of an identifier that has no row returns the component's
\* NotFound when the query is executed, and the driver's error, unchanged,
\* when it is not.
C2_GetMissingNotFoundWhenExecuted ==
    /\ (last.op = "index.Get" /\ last.arg \notin DOMAIN ContentRows)
          => last.err = (IF dbUp THEN IndexNotFound ELSE DbError)
    /\ (last.op = "license.Get" /\ last.arg \notin DOMAIN LicenseRows)
          => last.err = (IF dbUp THEN LicenseNotFound ELSE DbError)

\* a license that is not in a non-empty table has been asked for
C2_Witness ==
    /\ last.op = "license.Get"
    /\ last.arg \notin DOMAIN LicenseRows
    /\ DOMAIN LicenseRows # {}
    /\ last.err = LicenseNotFound

\* C3: UpdateRights(l) returns NotFound exactly when the statement is
\* executed and no row has the id l.Id, and the tables are then unchanged;
\* when the statement is executed and the row exists it returns nil.
C3_UpdateRightsNotFound ==
    [][last'.op = "license.UpdateRights" =>
          LET exists == last'.arg.Id \in DOMAIN LicenseRows
          IN  /\ (last'.err = LicenseNotFound) <=> (dbUp /\ ~exists)
              /\ (last'.err = LicenseNotFound) => tables' = tables
              /\ (dbUp /\ exists) => last'.err = Nil]_vars

\* UpdateRights has returned NotFound on a table that holds another license
C3_Witness ==
    /\ last.op = "license.UpdateRights"
    /\ last.err = LicenseNotFound
    /\ DOMAIN LicenseRows # {}

\* C4: license Update, license UpdateLsdStatus and index Update called with
\* an identifier that has no row return nil and leave the tables as they were.
C4_UpdateOfMissingIsSilent ==
    [][/\ (last'.op = "license.Update" /\ last'.arg.Id \notin DOMAIN LicenseRows)
            => (last'.err = Nil /\ tables' = tables)
       /\ (last'.op = "license.UpdateLsdStatus" /\ last'.arg[1] \notin DOMAIN LicenseRows)
            => (last'.err = Nil /\ tables' = tables)
       /\ (last'.op = "index.Update" /\ last'.arg.Id \notin DOMAIN ContentRows)
            => (last'.err = Nil /\ tables' = tables)]_vars

\* Update has been called for a license that is not in a non-empty table
C4_Witness ==
    /\ last.op = "license.Update"
    /\ last.arg.Id \notin DOMAIN LicenseRows
    /\ DOMAIN LicenseRows # {}
    /\ last.err = Nil

\* the sequences of the ids of rows (id -> row) in which the issuance times
\* never increase
SortedByIssuedDesc(rows) ==
    LET n == Cardinality(DOMAIN rows)
    IN  {s \in [1..n -> DOMAIN rows] :
            /\ \A i, j \in 1..n : i # j => s[i] # s[j]
            /\ \A i, j \in 1..n : i < j => rows[s[i]]["issued"] >= rows[s[j]]["issued"]}

\* the table sorted by issuance time descending, taken as one sequence
TheSortedTable(rows) == CHOOSE s \in SortedByIssuedDesc(rows) : TRUE

\* positions pageNum*page .. pageNum*page+page-1 (0-based) of s
PageOf(s, page, pageNum) ==
    SubSeq(s, pageNum * page + 1, Min(pageNum * page + page, Len(s)))

IsPrefix(a, b) == Len(a) <= Len(b) /\ SubSeq(b, 1, Len(a)) = a

AllIssuedDistinct(rows) ==
    \A i, j \in DOMAIN rows : i # j => rows[i]["issued"] # rows[j]["issued"]

\* C5 as claimed: a drained ListAll(page, pageNum) has yielded exactly the
\* licenses at positions pageNum*page .. pageNum*page+page-1 of the table
\* sorted by issuance time descending, so that two pages share no license.
C5_PagesOfTheSortedTable ==
    (iter.kind = "license.ListAll" /\ iter.state = "drained")
        => iter.yielded = PageOf(TheSortedTable(iter.from), iter.arg[1], iter.arg[2])

\* C5 amended: the calls of a ListAll(page, pageNum) iterator yield, in order,
\* the licenses at positions pageNum*page .. pageNum*page+page-1 of an
\* ordering of the table by issuance time descending (licenses issued at the
\* same time in an order the database chooses for the query), each as it is
\* in the table, and the call after the last of them returns NotFound; when
\* no two licenses were issued at the same time that ordering is the only
\* one, and different pages share no license.
C5_PagesOfASortedTable ==
    (iter.kind = "license.ListAll") =>
        LET page == iter.arg[1]
            pageNum == iter.arg[2]
        IN  /\ \E s \in SortedByIssuedDesc(iter.from) :
                  /\ IsPrefix(iter.yielded, PageOf(s, page, pageNum))
                  /\ iter.state = "drained" => iter.yielded = PageOf(s, page, pageNum)
            /\ Len(iter.yielded) <= page
            /\ last.op = "next" =>
                  /\ (last.err = LicenseNotFound) <=> (iter.state = "drained")
                  /\ last.err = Nil =>
                        LET row == iter.from[iter.yielded[Len(iter.yielded)]]
                        IN  /\ last.out.Id = row["id"]
                            /\ last.out.Issued = row["issued"]
                            /\ last.out.User.Id = row["user_id"]
                            /\ last.out.ContentId = row["content_fk"]
            /\ (iter.state = "drained" /\ AllIssuedDistinct(iter.from))
                  => iter.yielded = PageOf(TheSortedTable(iter.from), page, pageNum)

\* the second page of two has been drained over a table of three licenses
C5_Witness ==
    /\ iter.kind = "license.ListAll"
    /\ iter.state = "drained"
    /\ iter.arg = <<2, 1>>
    /\ Cardinality(DOMAIN iter.from) = 3
    /\ Len(iter.yielded) = 1

\* C6: the cursor of an iterator is released on every way its iteration can
\* end: drained, left by the caller before it is drained, or after a call
\* that returned a scan error.
C6_CursorAlwaysReleased ==
    /\ iter.state \in {"drained", "abandoned"} => ~iter.open
    /\ (last.op = "next" /\ last.err = ScanError) => ~iter.open

PostgresConfig == "postgres://lcp"

\* C7: whatever the configuration names, NewSqlStore on a database that holds
\* both tables returns what it returns under "postgres", and every mutation
\* returns the error and leaves the tables that the statement of the postgres
\* dialect gives.
C7_DialectsBehaveAlike ==
    [][LET pq == StoreQueries(PostgresConfig)
           Same(r) == tables' = r.tables /\ ((last'.err = Nil) <=> (r.err = Nil))
       IN  /\ (/\ last'.op = "license.NewSqlStore"
               /\ tables["content"].cols = ContentColumns
               /\ tables["license"].cols = LicenseColumns)
                 => LET pg == NewSqlStoreResult(PostgresConfig, dbUp, tables)
                    IN  /\ last'.err = pg.err
                        /\ store'.ok = pg.s.ok
                        /\ tables' = pg.tables
           /\ last'.op = "license.Add"
                 => Same(ExecInsert(pq.add, AddArgs(last'.arg), dbUp, tables))
           /\ last'.op = "license.Update"
                 => Same(ExecUpdate(pq.update, UpdateArgs(last'.arg, last'.now),
                                    dbUp, tables))
           /\ last'.op = "license.UpdateLsdStatus"
                 => Same(ExecUpdate(pq.updatelsdstatus,
                                    UpdateLsdStatusArgs(last'.arg[1], last'.arg[2]),
                                    dbUp, tables))]_vars

\* table t keeps its rows and the values of the columns it had
RowsKept(t) ==
    /\ DOMAIN tables'[t].rows = DOMAIN tables[t].rows
    /\ \A k \in DOMAIN tables[t].rows : \A c \in tables[t].cols :
          tables'[t].rows[k][c] = tables[t].rows[k][c]

\* C8 as claimed: each open issues CREATE TABLE IF NOT EXISTS for its table
\* under every configuration, the table exists after a successful open, no
\* open changes a row, and an open after a successful open succeeds.
C8_OpenAlwaysCreates ==
    [][/\ last'.op = "index.Open" =>
             /\ "CREATE content" \in Range(last'.out)
             /\ last'.err = Nil => tables'["content"].cols # {}
             /\ RowsKept("content") /\ RowsKept("license")
             /\ idx.ok => (last'.err = Nil /\ idx'.ok)
       /\ last'.op = "license.NewSqlStore" =>
             /\ "CREATE license" \in Range(last'.out)
             /\ last'.err = Nil => tables'["license"].cols # {}
             /\ RowsKept("content") /\ RowsKept("license")
             /\ store.ok => (last'.err = Nil /\ store'.ok)]_vars

\* C8 amended: index.Open issues CREATE TABLE IF NOT EXISTS under every
\* configuration, NewSqlStore only when the configuration starts with
\* "sqlite" or "postgres"; the table exists after a successful open; no open
\* adds, removes or changes a row; an open after a successful open succeeds.
C8_OpenCreatesPerDialect ==
    [][/\ last'.op = "index.Open" =>
             /\ "CREATE content" \in Range(last'.out)
             /\ last'.err = Nil => tables'["content"].cols # {}
             /\ RowsKept("content") /\ RowsKept("license")
             /\ idx.ok => (last'.err = Nil /\ idx'.ok)
       /\ last'.op = "license.NewSqlStore" =>
             /\ ("CREATE license" \in Range(last'.out))
                    <=> (HasPrefix(config, "sqlite") \/ HasPrefix(config, "postgres"))
             /\ last'.err = Nil => tables'["license"].cols # {}
             /\ RowsKept("content") /\ RowsKept("license")
             /\ store.ok => (last'.err = Nil /\ store'.ok)]_vars

\* the store has been opened again on a license table that holds rows
C8_Witness ==
    /\ last.op = "license.NewSqlStore"
    /\ last.err = Nil
    /\ "CREATE license" \in Range(last.out)
    /\ DOMAIN LicenseRows # {}

\* C9 as claimed: the last-updated column of a license is NULL exactly when
\* no update (Update, UpdateRights, UpdateLsdStatus) has matched the license
\* since its Add.
C9_NullIffNeverMutated ==
    \A id \in DOMAIN LicenseRows :
        (LicenseRows[id]["updated"] = Null) <=> (id \in DOMAIN added)

\* t in whole seconds
WholeSeconds(t) == Second * (t \div Second)

\* C9 amended: Add stores NULL as last-updated whatever the record carries;
\* Update and UpdateRights set it, in the row they match, to the current time
\* in whole seconds; UpdateLsdStatus leaves it as it is; it is NULL exactly for
\* the licenses that neither Update nor UpdateRights has matched since Add.
C9_StampedByUpdateAndUpdateRights ==
    [][/\ (last'.op = "license.Add" /\ last'.err = Nil)
             => LicenseRows'[last'.arg.Id]["updated"] = Null
       /\ (/\ last'.op \in {"license.Update", "license.UpdateRights"}
           /\ last'.err = Nil
           /\ last'.arg.Id \in DOMAIN LicenseRows)
             => LicenseRows'[last'.arg.Id]["updated"] = Some(WholeSeconds(last'.now))
       /\ last'.op = "license.UpdateLsdStatus"
             => \A id \in DOMAIN LicenseRows :
                   LicenseRows'[id]["updated"] = LicenseRows[id]["updated"]
       /\ \A id \in DOMAIN LicenseRows' :
             (LicenseRows'[id]["updated"] = Null) <=> (id \in unstamped')]_vars

\* UpdateRights at a time that is not a whole second has stamped a license
\* that was added carrying a last-updated value
C9_Witness ==
    /\ last.op = "license.UpdateRights"
    /\ last.err = Nil
    /\ last.now % Second # 0
    /\ LicenseRows[last.arg.Id]["issued"] = LicenseB("l1").Issued
    /\ LicenseRows[last.arg.Id]["updated"] = Some(0)

\* the columns of license id that the step changes
Changed(id) ==
    {c \in LicenseColumns : LicenseRows'[id][c] # LicenseRows[id][c]}

RightsColumns == {"rights_print", "rights_copy", "rights_start", "rights_end"}

\* the step changes, in the license table, at most the columns cols of id
ChangesOnly(id, cols) ==
    /\ DOMAIN LicenseRows' = DOMAIN LicenseRows
    /\ \A k \in DOMAIN LicenseRows :
          Changed(k) \subseteq (IF k = id THEN cols ELSE {})

\* C10: UpdateRights changes only the rights and last-updated columns of the
\* row it matches, Update only user, provider, last-updated, rights and content
\* reference, UpdateLsdStatus only the status; none changes another row; Add
\* stores the issuance time it is given and no step changes the issuance time
\* of a license.
C10_MutationsKeepTheirFrame ==
    [][/\ last'.op = "license.UpdateRights"
             => ChangesOnly(last'.arg.Id, RightsColumns \cup {"updated"})
       /\ last'.op = "license.Update"
             => ChangesOnly(last'.arg.Id,
                    RightsColumns \cup {"user_id", "provider", "updated", "content_fk"})
       /\ last'.op = "license.UpdateLsdStatus"
             => ChangesOnly(last'.arg[1], {"lsd_status"})
       /\ (last'.op = "license.Add" /\ last'.err = Nil)
             => /\ LicenseRows'[last'.arg.Id]["issued"] = last'.arg.Issued
                /\ \A k \in DOMAIN LicenseRows : LicenseRows'[k] = LicenseRows[k]
       /\ \A k \in DOMAIN LicenseRows :
             /\ k \in DOMAIN LicenseRows'
             /\ LicenseRows'[k]["issued"] = LicenseRows[k]["issued"]]_vars

\* UpdateRights has been given a license whose other fields differ from the
\* row it matched, beside another license
C10_Witness ==
    /\ last.op = "license.UpdateRights"
    /\ last.err = Nil
    /\ last.arg = LicenseB("l1")
    /\ LicenseRows["l1"]["user_id"] = "u1"
    /\ LicenseRows["l1"]["rights_copy"] = Some(20)
    /\ "l2" \in DOMAIN LicenseRows

====
